---- MODULE Spec2Model ----
(***************************************************************************)
(* The popup search client of the mnemos browser extension (popup.js),    *)
(* the configuration it is documented to follow (mem0/config.js) and the   *)
(* extension's service worker (mnemos/background.js).                      *)
(*                                                                         *)
(* The popup and the service worker share no state, and a card's click     *)
(* handler touches only the clipboard and that card's style, so the        *)
(* behaviours are explored in three parts: Spec (the searches and the      *)
(* health check), CopySpec (Spec with the card click handlers interleaved) *)
(* and BackgroundSpec (the service worker's listeners).                    *)
(*                                                                         *)
(* Strings are sequences whose elements are either single characters       *)
(* ("<", "&", " ", "a", ...) or literal chunks of the source's string      *)
(* constants ("Failed to search memories: "), which hold none of the       *)
(* characters HTML or URL encoding rewrites.  Markup written by the        *)
(* source's templates is a chunk of its own ("<div class=\"error\">"), so  *)
(* a one-character "<" inside innerHTML is always data.                    *)
(*                                                                         *)
(* Every `await` of an async function is a point where the function is     *)
(* suspended on a promise: the network settles the promise (an             *)
(* environment step) and the event loop then resumes the function, which   *)
(* runs to its next await or to its end in one step.                       *)
(***************************************************************************)
EXTENDS Integers, Sequences, FiniteSets, TLC

\* ------------------------------------------------------------ bounds
MaxSearches == 2
MaxResults == 2
\* Card clicks the user makes.
MaxCopies == 1
\* Events the service worker is woken for.
MaxEvents == 2

\* ------------------------------------------------------------ strings
\* The concatenation of F(s[1], 1), F(s[2], 2), ... in order.
FlatMap(F(_, _), s) ==
  LET upTo[i \in 0..Len(s)] == IF i = 0 THEN <<>> ELSE upTo[i - 1] \o F(s[i], i)
  IN upTo[Len(s)]

Whitespace == {" ", "\t"}

\* String.prototype.trim: the string from its first to its last character
\* that is not whitespace.
Trim(s) ==
  LET kept == {i \in DOMAIN s : s[i] \notin Whitespace}
  IN IF kept = {} THEN <<>>
     ELSE SubSeq(s, CHOOSE i \in kept : \A j \in kept : i <= j,
                    CHOOSE i \in kept : \A j \in kept : i >= j)

\* encodeURIComponent: everything but the unreserved characters is
\* percent-encoded.
EncodeChar(c) ==
  CASE c = " "  -> <<"%", "2", "0">>
    [] c = "\t" -> <<"%", "0", "9">>
    [] c = "&"  -> <<"%", "2", "6">>
    [] c = "<"  -> <<"%", "3", "C">>
    [] c = ">"  -> <<"%", "3", "E">>
    [] c = ";"  -> <<"%", "3", "B">>
    [] c = "%"  -> <<"%", "2", "5">>
    [] OTHER    -> <<c>>

encodeURIComponent(s) == FlatMap(LAMBDA c, i : EncodeChar(c), s)

\* What the HTML serializer writes for one character of a text node.
EscapeChar(c) ==
  CASE c = "&" -> <<"&", "a", "m", "p", ";">>
    [] c = "<" -> <<"&", "l", "t", ";">>
    [] c = ">" -> <<"&", "g", "t", ";">>
    [] OTHER   -> <<c>>

escapeHtml_raw(text) == text

\* escapeHtml: div.textContent = text; return div.innerHTML
escapeHtml(text) == FlatMap(LAMBDA c, i : EscapeChar(c), text)

StartsWith(h, i, sub) ==
  i + Len(sub) - 1 <= Len(h) /\ SubSeq(h, i, i + Len(sub) - 1) = sub

\* The entity at position i of h, as the character it stands for and its
\* length; length 0 when no entity starts there.
EntityAt(h, i) ==
  IF StartsWith(h, i, <<"&", "a", "m", "p", ";">>) THEN [char |-> "&", len |-> 5]
  ELSE IF StartsWith(h, i, <<"&", "l", "t", ";">>) THEN [char |-> "<", len |-> 4]
  ELSE IF StartsWith(h, i, <<"&", "g", "t", ";">>) THEN [char |-> ">", len |-> 4]
  ELSE [char |-> "", len |-> 0]

\* What the HTML parser reads back from escaped character data, the text a
\* user sees: scanning from the left, each entity is replaced by its
\* character and everything else is kept.
HtmlDecode(h) ==
  LET from[i \in 1..(Len(h) + 1)] ==
        LET entities == {j \in i..Len(h) : h[j] = "&" /\ EntityAt(h, j).len > 0}
        IN IF entities = {} THEN SubSeq(h, i, Len(h))
           ELSE LET j == CHOOSE j \in entities : \A k \in entities : j <= k
                IN SubSeq(h, i, j - 1) \o <<EntityAt(h, j).char>>
                   \o from[j + EntityAt(h, j).len]
  IN from[1]

\* ------------------------------------------------------------ values
\* A JavaScript value that may be undefined.
Undefined == [defined |-> FALSE, str |-> <<>>]
Str(s) == [defined |-> TRUE, str |-> s]
Truthy(v) == v.defined /\ v.str # <<>>

\* a || b || c over strings, c a string literal
OrElse(a, b, c) == IF Truthy(a) THEN a.str ELSE IF Truthy(b) THEN b.str ELSE c

\* A score is a number held in thousandths, or NaN when the record has
\* none (undefined * 100).
Num(milli) == [isNaN |-> FALSE, milli |-> milli]
NaN == [isNaN |-> TRUE, milli |-> 0]

\* (memory.score * 100).toFixed(1)
ScoreText(score) ==
  IF score.isNaN THEN <<"NaN">>
  ELSE <<ToString(score.milli \div 10), ".", ToString(score.milli % 10)>>

\* Memory records the service may return.
Memories ==
  { [chunk_text |-> Str(<<"<", "b", ">">>), text |-> Str(<<"t">>), score |-> Num(953)],
    [chunk_text |-> Str(<<>>), text |-> Str(<<"a", "&", "l", "t", ";">>),
     score |-> Num(953)],
    [chunk_text |-> Undefined, text |-> Undefined, score |-> NaN] }

RECURSIVE SeqsUpTo(_, _)
SeqsUpTo(S, n) ==
  IF n = 0 THEN {<<>>}
  ELSE LET shorter == SeqsUpTo(S, n - 1)
       IN shorter \cup {Append(s, x) : s \in shorter, x \in S}

\* A parsed response body: null, an object without `results`, or an object
\* whose `results` is a list of memory records.
NullData == [isNull |-> TRUE, hasResults |-> FALSE, results |-> <<>>]
NoResultsData == [isNull |-> FALSE, hasResults |-> FALSE, results |-> <<>>]
ResultsData(rs) == [isNull |-> FALSE, hasResults |-> TRUE, results |-> rs]
Datas ==
  {NullData, NoResultsData} \cup {ResultsData(rs) : rs \in SeqsUpTo(Memories, MaxResults)}

NoResults_always(data) == TRUE

\* !data.results || data.results.length === 0
NoResults(data) == ~data.hasResults \/ Len(data.results) = 0
HasResults_anyList(data) == data.hasResults

\* data.results && data.results.length > 0
HasResults(data) == data.hasResults /\ Len(data.results) > 0

Statuses == {200, 500}
\* Response.ok
Ok(status) == status \in 200..299

\* Messages of the errors the platform raises.
NetworkError == <<"Failed to fetch">>
SyntaxError == <<"Unexpected token '", "<", "', \"", "<", "html", ">", "\" is not valid JSON">>
NullTypeError == <<"Cannot read properties of null (reading 'results')">>
\* new Error(`HTTP error! status: ${response.status}`).message
HttpError(status) == <<"HTTP error! status: ", ToString(status)>>

\* What the user may type into searchInput.
Queries == { <<>>, <<" ", "\t">>, <<" ", "a", "&">> }
Keys == {"Enter", "a"}

\* ------------------------------------------------------------ configuration
\* Values CONFIG.SERVICE_BASE_URL may be edited to.
BaseUrls == {"http://localhost:8000", "http://memory.example:9000"}
\* The origin written into popup.js's fetch calls.
PopupBaseUrl == "http://localhost:8000"
TestPath == "/api/test"
CascadingPath == "/api/cascading-retrieval"
SemanticPath == "/api/semantic-search"

Url(path, search) == [base |-> PopupBaseUrl, path |-> path, search |-> search]
TextQuery(query) == <<"?text_query=">> \o encodeURIComponent(query)

\* ------------------------------------------------------------ state
VARIABLES
  SERVICE_BASE_URL, \* CONFIG.SERVICE_BASE_URL as edited by the user
  inputValue,       \* searchInput.value
  isSearching,      \* let isSearching
  disabled,         \* searchButton.disabled
  label,            \* searchButton.textContent
  innerHTML,        \* memoriesContainer.innerHTML, style attributes left out
  cards,            \* the memory-item elements still referenced: the
                    \* container's children and those a copy in progress holds
  health,           \* the activation of checkServiceStatus()
  calls,            \* the suspended activations of searchMemories()
  requests,         \* every fetch issued so far, in order
  event,            \* "search" when the step just taken was a click or an
                    \* Enter keypress reaching its listener, "none" otherwise
  copies,           \* the card click handlers waiting on a clipboard write
                    \* or on their timer
  clipboard,        \* the text on the system clipboard
  writes,           \* every navigator.clipboard.writeText call so far, in order
  delivered,        \* every message handed to background.js's onMessage
                    \* listener so far, in order
  tabs,             \* every chrome.tabs.create call so far, in order
  sent,             \* every chrome.tabs.sendMessage call so far, in order
  storage           \* chrome.storage.sync

\* The state of the service worker (background.js) and of card copying.
worker == <<delivered, tabs, sent, storage>>
copying == <<copies, clipboard, writes>>

vars ==
  <<SERVICE_BASE_URL, inputValue, isSearching, disabled, label, innerHTML, cards,
    health, calls, requests, event, copies, clipboard, writes,
    delivered, tabs, sent, storage>>

\* What popup.html holds before any script has written to it.
InitialLabel == "(popup.html)"
InitialHtml == <<"(popup.html)">>
\* What the clipboard holds before the popup has written to it.
InitialClipboard == <<"(clipboard)">>

\* ------------------------------------------------------------ promises
Pending == [state |-> "pending", status |-> 0, data |-> NullData, message |-> <<>>]
Response(status) ==
  [state |-> "fulfilled", status |-> status, data |-> NullData, message |-> <<>>]
Parsed(data) ==
  [state |-> "fulfilled", status |-> 0, data |-> data, message |-> <<>>]
Rejected(message) ==
  [state |-> "rejected", status |-> 0, data |-> NullData, message |-> message]

\* How the network can settle a fetch(), and how it can settle
\* response.json().
FetchOutcomes == {Response(st) : st \in Statuses} \cup {Rejected(NetworkError)}
JsonOutcomes == {Parsed(d) : d \in Datas} \cup {Rejected(SyntaxError)}

\* ------------------------------------------------------------ requests
Request(by, path, search) == [by |-> by, url |-> Url(path, search)]

\* The requests a given caller issued (0 is the health check, i > 0 the
\* i-th dispatched search).
RequestsBy(by) == LET Mine(r) == r.by = by IN SelectSeq(requests, Mine)
RequestsTo(path) == LET There(r) == r.url.path = path IN SelectSeq(requests, There)

\* Searches dispatched so far.
Dispatched == Len(RequestsTo(CascadingPath))

\* ------------------------------------------------------------ the popup's UI
\* A memory-item element: the memory its click listener closes over, its
\* style.backgroundColor, and whether it is a child of the container.  The
\* searches render at most once each, so the number of the search that
\* rendered an element and its position tell the elements apart.
Element(by, index, memory) ==
  [by |-> by, index |-> index, memory |-> memory, backgroundColor |-> "",
   attached |-> TRUE]

\* The copy k holds the element e.
Holds(k, e) == k.by = e.by /\ k.index = e.index

\* The elements something still refers to: the container's children and
\* the elements held by the copies ks.
Referenced(es, ks) == {e \in es : e.attached \/ \E k \in ks : Holds(k, e)}

\* An assignment to memoriesContainer.innerHTML removes every child.
Detach(es) == Referenced({[e EXCEPT !.attached = FALSE] : e \in es}, copies)

UI ==
  [isSearching |-> isSearching, disabled |-> disabled, label |-> label,
   innerHTML |-> innerHTML, cards |-> cards]

SetUI(ui) ==
  /\ isSearching' = ui.isSearching
  /\ disabled' = ui.disabled
  /\ label' = ui.label
  /\ innerHTML' = ui.innerHTML
  /\ cards' = ui.cards

LoadingHtml == <<"<div class=\"loading\">", "Searching your memories...", "</div>">>

setLoading_keepFlag(ui, loading) ==
  [isSearching |-> loading \/ ui.isSearching,
   disabled |-> loading,
   label |-> IF loading THEN "Searching..." ELSE "Search Memories",
   innerHTML |-> IF loading THEN LoadingHtml ELSE ui.innerHTML,
   cards |-> IF loading THEN Detach(ui.cards) ELSE ui.cards]

setLoading_labelOnly(ui, loading) ==
  [isSearching |-> loading,
   disabled |-> ui.disabled,
   label |-> IF loading THEN "Searching..." ELSE "Search Memories",
   innerHTML |-> IF loading THEN LoadingHtml ELSE ui.innerHTML,
   cards |-> IF loading THEN Detach(ui.cards) ELSE ui.cards]

setLoading(ui, loading) ==
  [isSearching |-> loading,
   disabled |-> loading,
   label |-> IF loading THEN "Searching..." ELSE "Search Memories",
   innerHTML |-> IF loading THEN LoadingHtml ELSE ui.innerHTML,
   cards |-> IF loading THEN Detach(ui.cards) ELSE ui.cards]

ErrorHtml(escaped) == <<"<div class=\"error\">">> \o escaped \o <<"</div>">>
EmptyStateHtml(escaped) == <<"<div class=\"empty-state\">">> \o escaped \o <<"</div>">>

showError(ui, message) ==
  [ui EXCEPT !.innerHTML = ErrorHtml(escapeHtml(message)), !.cards = Detach(ui.cards)]

showEmptyState(ui, message) ==
  [ui EXCEPT !.innerHTML = EmptyStateHtml(escapeHtml(message)),
             !.cards = Detach(ui.cards)]

CardText_textFirst(memory) ==
  OrElse(memory.text, memory.chunk_text, <<"No text available">>)

\* The text a card shows, before escaping.
CardText(memory) == OrElse(memory.chunk_text, memory.text, <<"No text available">>)

\* The template literal assigned to memoryElement.innerHTML, inside the
\* element's own tag.
CardTemplate(text, score, index) ==
  <<"<div class=\"memory-item\">", "<div class=\"memory-text\">">>
  \o text
  \o <<"</div>", "<div class=\"memory-meta\">", "<span>", "Score: ">>
  \o score
  \o <<"%", "</span>", "<span>", "Memory #", ToString(index), "</span>",
       "</div>", "</div>">>

\* The serialization of one memory-item element.
CardHtml(memory, index) ==
  CardTemplate(escapeHtml(CardText(memory)), ScoreText(memory.score), index)

displayMemories(ui, memories) ==
  [ui EXCEPT !.innerHTML = FlatMap(CardHtml, memories),
             !.cards = Detach(ui.cards)
                         \cup {Element(Dispatched, i, memories[i]) : i \in DOMAIN memories}]

ServiceUnavailable ==
  <<"Memory service is not available. Please make sure it's running on localhost:8000">>
PleaseEnterQuery == <<"Please enter a search query">>
NoMemoriesFound == <<"No memories found for your search">>
FailedToSearch(message) == <<"Failed to search memories: ">> \o message

\* ------------------------------------------------------------ construction
\* The state when the DOMContentLoaded listener returns: the listeners are
\* registered and checkServiceStatus() has issued its fetch.
Init ==
  /\ SERVICE_BASE_URL \in BaseUrls
  /\ inputValue = <<>>
  /\ isSearching = FALSE
  /\ disabled = FALSE
  /\ label = InitialLabel
  /\ innerHTML = InitialHtml
  /\ health = [pc |-> "awaitFetch", promise |-> Pending, returned |-> "none"]
  /\ calls = {}
  /\ requests = <<Request(0, TestPath, <<>>)>>
  /\ event = "none"
  /\ cards = {}
  /\ copies = {}
  /\ clipboard = InitialClipboard
  /\ writes = <<>>
  /\ delivered = <<>>
  /\ tabs = <<>>
  /\ sent = <<>>
  /\ storage = [memory_enabled |-> "(unset)"]

\* ------------------------------------------------------------ checkServiceStatus
\* The network answers GET /api/test or fails.
SettleHealth ==
  /\ health.pc = "awaitFetch"
  /\ health.promise.state = "pending"
  /\ \E outcome \in FetchOutcomes : health' = [health EXCEPT !.promise = outcome]
  /\ event' = "none"
  /\ UNCHANGED <<SERVICE_BASE_URL, inputValue, isSearching, disabled, label,
                 innerHTML, cards, calls, requests, worker, copying>>

HealthUI_anyFailure(ui, promise) ==
  IF promise.state = "fulfilled" /\ Ok(promise.status) THEN ui
  ELSE showError(ui, ServiceUnavailable)

\* The UI after checkServiceStatus has seen how its fetch settled.
HealthUI(ui, promise) ==
  IF promise.state = "rejected" THEN showError(ui, ServiceUnavailable) ELSE ui

HealthReturn(promise) ==
  IF promise.state = "fulfilled" /\ Ok(promise.status) THEN "true" ELSE "false"

ResumeHealth ==
  /\ health.pc = "awaitFetch"
  /\ health.promise.state # "pending"
  /\ SetUI(HealthUI(UI, health.promise))
  /\ health' = [pc |-> "done", promise |-> health.promise,
                returned |-> HealthReturn(health.promise)]
  /\ event' = "none"
  /\ UNCHANGED <<SERVICE_BASE_URL, inputValue, calls, requests, worker, copying>>

\* ------------------------------------------------------------ searchMemories
IsBlank_untrimmed(query) == query = <<>>

\* !query.trim()
IsBlank(query) == Trim(query) = <<>>

\* searchMemories(query) up to its first await.
searchMemories(query) ==
  IF IsBlank(query)
  THEN /\ SetUI(showEmptyState(UI, PleaseEnterQuery))
       /\ UNCHANGED <<calls, requests>>
  ELSE LET id == Dispatched + 1
       IN /\ SetUI(setLoading(UI, TRUE))
          /\ requests' = Append(requests, Request(id, CascadingPath, TextQuery(query)))
          /\ calls' = calls \cup {[id |-> id, query |-> query,
                                   pc |-> "awaitPrimary", promise |-> Pending]}

\* The network settles the promise a search is suspended on.
Settle ==
  /\ \E c \in calls :
       /\ c.promise.state = "pending"
       /\ \E outcome \in (IF c.pc \in {"awaitPrimary", "awaitFallback"}
                          THEN FetchOutcomes ELSE JsonOutcomes) :
            calls' = (calls \ {c}) \cup {[c EXCEPT !.promise = outcome]}
       /\ event' = "none"
  /\ UNCHANGED <<SERVICE_BASE_URL, inputValue, isSearching, disabled, label,
                 innerHTML, cards, health, requests, worker, copying>>

CatchFinally_noFinally(ui, message) == showError(ui, FailedToSearch(message))

\* catch (error) { showError(...) } finally { setLoading(false) }
CatchFinally(ui, message) == setLoading(showError(ui, FailedToSearch(message)), FALSE)

RenderFinally_silentEmpty(ui, data) ==
  setLoading(IF HasResults(data) THEN displayMemories(ui, data.results) ELSE ui, FALSE)

\* The last if/else of the try block, then finally.
RenderFinally(ui, data) ==
  setLoading(IF HasResults(data) THEN displayMemories(ui, data.results)
             ELSE showEmptyState(ui, NoMemoriesFound),
             FALSE)

\* The activation c returns.
Return(c, ui) ==
  /\ SetUI(ui)
  /\ calls' = calls \ {c}
  /\ UNCHANGED requests

\* The activation c goes on to its next await.
Await(c, pc) ==
  /\ calls' = (calls \ {c}) \cup {[c EXCEPT !.pc = pc, !.promise = Pending]}
  /\ UNCHANGED <<isSearching, disabled, label, innerHTML, cards>>

AfterFetch_ignoreStatus(c, jsonPc) ==
  IF c.promise.state = "rejected" THEN Return(c, CatchFinally(UI, c.promise.message))
  ELSE Await(c, jsonPc) /\ UNCHANGED requests

\* From `await fetch(...)` of either endpoint to the next await or the end.
AfterFetch(c, jsonPc) ==
  LET p == c.promise
  IN IF p.state = "rejected" THEN Return(c, CatchFinally(UI, p.message))
     ELSE IF ~Ok(p.status) THEN Return(c, CatchFinally(UI, HttpError(p.status)))
     ELSE Await(c, jsonPc) /\ UNCHANGED requests

FallbackRequest_liveInput(c) == Request(c.id, SemanticPath, TextQuery(inputValue))

\* fetch(`.../api/semantic-search?text_query=${encodeURIComponent(query)}`)
FallbackRequest(c) == Request(c.id, SemanticPath, TextQuery(c.query))

\* From `data = await response.json()` of the primary response on.
AfterPrimaryJson(c) ==
  LET p == c.promise
  IN IF p.state = "rejected" THEN Return(c, CatchFinally(UI, p.message))
     ELSE IF p.data.isNull THEN Return(c, CatchFinally(UI, NullTypeError))
     ELSE IF NoResults(p.data)
     THEN /\ requests' = Append(requests, FallbackRequest(c))
          /\ Await(c, "awaitFallback")
     ELSE Return(c, RenderFinally(UI, p.data))

\* From `data = await response.json()` of the fallback response on.
AfterFallbackJson(c) ==
  LET p == c.promise
  IN IF p.state = "rejected" THEN Return(c, CatchFinally(UI, p.message))
     ELSE IF p.data.isNull THEN Return(c, CatchFinally(UI, NullTypeError))
     ELSE Return(c, RenderFinally(UI, p.data))

\* The event loop resumes a search whose promise has settled.
Resume ==
  /\ \E c \in calls :
       /\ c.promise.state # "pending"
       /\ CASE c.pc = "awaitPrimary" -> AfterFetch(c, "awaitPrimaryJson")
            [] c.pc = "awaitPrimaryJson" -> AfterPrimaryJson(c)
            [] c.pc = "awaitFallback" -> AfterFetch(c, "awaitFallbackJson")
            [] c.pc = "awaitFallbackJson" -> AfterFallbackJson(c)
       /\ event' = "none"
  /\ UNCHANGED <<SERVICE_BASE_URL, inputValue, health, worker, copying>>

\* ------------------------------------------------------------ event listeners
ClickGuard_healthy == ~isSearching /\ health.returned = "true"

ClickGuard_always == TRUE

\* !isSearching
ClickGuard == ~isSearching

KeypressGuard_anyEnter(key) == key = "Enter"

KeypressGuard(key) == key = "Enter" /\ ~isSearching

\* No more than MaxSearches searches are dispatched.
WithinBound(guard) == guard /\ ~IsBlank(inputValue) => Dispatched < MaxSearches

\* searchButton's click listener.  The listener is modelled as reachable
\* whatever searchButton.disabled is, so that its own guard is what is
\* checked.
Click ==
  /\ WithinBound(ClickGuard)
  /\ IF ClickGuard THEN searchMemories(inputValue)
     ELSE UNCHANGED <<isSearching, disabled, label, innerHTML, cards, calls, requests>>
  /\ event' = "search"
  /\ UNCHANGED <<SERVICE_BASE_URL, inputValue, health, worker, copying>>

\* searchInput's keypress listener.
Keypress ==
  /\ \E key \in Keys :
       /\ WithinBound(KeypressGuard(key))
       /\ IF KeypressGuard(key) THEN searchMemories(inputValue)
          ELSE UNCHANGED <<isSearching, disabled, label, innerHTML, cards, calls, requests>>
       /\ event' = IF key = "Enter" THEN "search" ELSE "none"
  /\ UNCHANGED <<SERVICE_BASE_URL, inputValue, health, worker, copying>>

\* The user edits the search field.
Input ==
  /\ \E q \in Queries : q # inputValue /\ inputValue' = q
  /\ event' = "none"
  /\ UNCHANGED <<SERVICE_BASE_URL, isSearching, disabled, label, innerHTML, cards,
                 health, calls, requests, worker, copying>>

Next ==
  \/ SettleHealth
  \/ ResumeHealth
  \/ Click
  \/ Keypress
  \/ Input
  \/ Settle
  \/ Resume

\* The popup searching.
Spec == Init /\ [][Next]_vars

\* The event loop runs every continuation whose promise has settled; the
\* network owes no answer.
LiveSpec == Spec /\ WF_vars(Resume) /\ WF_vars(ResumeHealth)

\* ------------------------------------------------------------ card click handler
popup ==
  <<SERVICE_BASE_URL, inputValue, isSearching, disabled, label, innerHTML, cards,
    health, calls, requests, copies, clipboard, writes>>

\* The colour of the success indicator.
Confirmation == "#34a853"

CopyText_displayed(memory) == CardText(memory)

\* memory.chunk_text || memory.text || ''
CopyText(memory) == OrElse(memory.chunk_text, memory.text, <<>>)

\* The elements es with the backgroundColor of the one the copy k holds
\* set to colour.
Paint(es, k, colour) ==
  {IF Holds(k, e) THEN [e EXCEPT !.backgroundColor = colour] ELSE e : e \in es}

\* The click listener of a card in the container, up to the promise
\* writeText returns.
CardClick ==
  /\ Len(writes) < MaxCopies
  /\ \E e \in cards :
       /\ e.attached
       /\ LET text == CopyText(e.memory)
          IN /\ writes' = Append(writes, text)
             /\ copies' = copies \cup {[n |-> Len(writes) + 1, by |-> e.by,
                                        index |-> e.index, text |-> text,
                                        pc |-> "awaitWrite"]}
  /\ event' = "none"
  /\ UNCHANGED <<SERVICE_BASE_URL, inputValue, isSearching, disabled, label,
                 innerHTML, cards, health, calls, requests, clipboard, worker>>

\* The clipboard takes the text and the `then` callback runs, in the
\* microtask that follows: the element turns to the confirmation colour and
\* the 500 ms timer is set.
WriteSucceeds ==
  /\ \E k \in copies :
       /\ k.pc = "awaitWrite"
       /\ clipboard' = k.text
       /\ cards' = Paint(cards, k, Confirmation)
       /\ copies' = (copies \ {k}) \cup {[k EXCEPT !.pc = "timer"]}
  /\ event' = "none"
  /\ UNCHANGED <<SERVICE_BASE_URL, inputValue, isSearching, disabled, label,
                 innerHTML, health, calls, requests, writes, worker>>

\* The write is refused and the `catch` callback runs: console.error only.
WriteFails ==
  /\ \E k \in copies :
       /\ k.pc = "awaitWrite"
       /\ copies' = copies \ {k}
       /\ cards' = Referenced(cards, copies')
  /\ event' = "none"
  /\ UNCHANGED <<SERVICE_BASE_URL, inputValue, isSearching, disabled, label,
                 innerHTML, health, calls, requests, clipboard, writes, worker>>

\* The setTimeout callback.
TimerFires ==
  /\ \E k \in copies :
       /\ k.pc = "timer"
       /\ copies' = copies \ {k}
       /\ cards' = Referenced(Paint(cards, k, ""), copies')
  /\ event' = "none"
  /\ UNCHANGED <<SERVICE_BASE_URL, inputValue, isSearching, disabled, label,
                 innerHTML, health, calls, requests, clipboard, writes, worker>>

CopyNext ==
  \/ Next
  \/ CardClick
  \/ WriteSucceeds
  \/ WriteFails
  \/ TimerFires

\* The popup searching, and its cards being clicked.
CopySpec == Init /\ [][CopyNext]_vars

\* The event loop runs every timer that is due.
LiveCopySpec == CopySpec /\ WF_vars(TimerFires)

\* ------------------------------------------------------------ background.js
\* The messages other parts of the extension, or other extensions, may
\* send: any action or none, any url or none.
Actions == {Str(<<"openDashboard">>), Str(<<"opendashboard">>), Str(<<"toggleSidebar">>), Undefined}
DashboardUrls ==
  {Str(<<"https://app.mem0.ai/dashboard">>), Str(<<"javascript:alert(1)">>), Str(<<>>),
   Undefined}
Messages == [action : Actions, url : DashboardUrls]
TabIds == {1, 2}

\* Events handled so far.
Handled == Len(delivered) + Len(sent) + (IF storage.memory_enabled = "(unset)" THEN 0 ELSE 1)

IsOpenDashboard_anyCase(request) ==
  request.action \in {Str(<<"openDashboard">>), Str(<<"opendashboard">>)}

\* request.action === "openDashboard"
IsOpenDashboard(request) == request.action = Str(<<"openDashboard">>)

\* chrome.runtime.onMessage listener
OnMessage ==
  /\ Handled < MaxEvents
  /\ \E request \in Messages :
       /\ delivered' = Append(delivered, request)
       /\ tabs' = IF IsOpenDashboard(request)
                  THEN Append(tabs, [url |-> request.url])
                  ELSE tabs
  /\ UNCHANGED <<sent, storage, popup, event>>

\* chrome.action.onClicked listener
OnClicked ==
  /\ Handled < MaxEvents
  /\ \E tab \in TabIds :
       sent' = Append(sent, [tabId |-> tab, message |-> [action |-> "toggleSidebar"]])
  /\ UNCHANGED <<delivered, tabs, storage, popup, event>>

\* chrome.runtime.onInstalled listener
OnInstalled ==
  /\ Handled < MaxEvents
  /\ storage' = [storage EXCEPT !.memory_enabled = "true"]
  /\ UNCHANGED <<delivered, tabs, sent, popup, event>>

BackgroundNext ==
  \/ OnMessage
  \/ OnClicked
  \/ OnInstalled

\* The service worker, which shares no state with the popup.
BackgroundSpec == Init /\ [][BackgroundNext]_vars

\* ------------------------------------------------------------ vocabulary of the claims
Contains(s, sub) ==
  \E k \in 0..(Len(s) - Len(sub)) : SubSeq(s, k + 1, k + Len(sub)) = sub

IsErrorHtml(html) ==
  Len(html) >= 2 /\ Head(html) = "<div class=\"error\">" /\ html[Len(html)] = "</div>"
IsCardsHtml(html) == html # <<>> /\ Head(html) = "<div class=\"memory-item\">"
\* The character data between the opening and the closing tag.
Body(html) == SubSeq(html, 2, Len(html) - 1)

\* The step is the click or Enter listener running.
SearchEvent == event' = "search"
\* The step is the continuation of the search activation c.
Resumes(c) == c.promise.state # "pending" /\ c \notin calls'
Fulfilled(c, pc) == c.pc = pc /\ c.promise.state = "fulfilled"

Idle == ~isSearching /\ ~disabled /\ label = "Search Memories"

\* The last request is a new one, issued by this step.
Issues(r) == requests' = Append(requests, r)

\* C1: at most one search activation (one chain of primary, then fallback)
\* is ever outstanding, isSearching is true exactly while one is, and a
\* click or Enter handled while isSearching is true issues no request and
\* changes nothing.
C1_SingleFlight ==
  /\ [](Cardinality(calls) <= 1 /\ (isSearching <=> calls # {}))
  /\ [][SearchEvent /\ isSearching =>
          UNCHANGED <<SERVICE_BASE_URL, inputValue, isSearching, disabled, label,
                      innerHTML, health, calls, requests>>]_vars

C1_Witness ==
  /\ event = "search"
  /\ isSearching
  /\ \E c \in calls : c.pc = "awaitFallback" /\ Len(RequestsBy(c.id)) = 2

\* C2: a click or Enter with an empty or whitespace-only query issues no
\* request, shows 'Please enter a search query', and leaves isSearching
\* false and the button enabled.
C2_BlankQuery ==
  [][SearchEvent /\ ~isSearching /\ Trim(inputValue) = <<>> =>
       /\ requests' = requests
       /\ calls' = calls
       /\ innerHTML' = EmptyStateHtml(PleaseEnterQuery)
       /\ ~isSearching' /\ ~disabled']_vars

C2_Witness ==
  /\ event = "search"
  /\ inputValue = <<" ", "\t">>
  /\ innerHTML = EmptyStateHtml(PleaseEnterQuery)
  /\ ~isSearching /\ ~disabled
  /\ Len(requests) = 1

\* C3: when the primary response parses with one or more results, the
\* search issues no fallback request, renders exactly those results and
\* ends; a fallback request is only ever issued by a search whose primary
\* data had no results.
C3_NoFallbackOnResults ==
  /\ [][\A c \in calls :
          Resumes(c) /\ Fulfilled(c, "awaitPrimaryJson")
                     /\ c.promise.data.hasResults /\ Len(c.promise.data.results) >= 1 =>
            /\ requests' = requests
            /\ innerHTML' = displayMemories(UI, c.promise.data.results).innerHTML
            /\ \A d \in calls' : d.id # c.id]_vars
  /\ [][requests' # requests /\ requests'[Len(requests')].url.path = SemanticPath =>
          \E c \in calls :
            /\ c.id = requests'[Len(requests')].by
            /\ Fulfilled(c, "awaitPrimaryJson")
            /\ ~(c.promise.data.hasResults /\ Len(c.promise.data.results) >= 1)]_vars

C3_Witness ==
  /\ event = "none"
  /\ Len(RequestsBy(Dispatched)) = 1
  /\ IsCardsHtml(innerHTML)
  /\ calls = {}

\* C4: when the primary response parses with results empty or missing, the
\* search issues the fallback request at that moment, exactly once, with
\* the query string of its primary request, whatever the input field holds
\* by then.
C4_FallbackOnce ==
  /\ [][\A c \in calls :
          Resumes(c) /\ Fulfilled(c, "awaitPrimaryJson") /\ ~c.promise.data.isNull
                     /\ (~c.promise.data.hasResults \/ c.promise.data.results = <<>>) =>
            \E r \in {requests'[Len(requests')]} :
              /\ Issues(r)
              /\ r.by = c.id
              /\ r.url.path = SemanticPath
              /\ r.url.search = RequestsBy(c.id)[1].url.search
              /\ r.url.search = <<"?text_query=">> \o encodeURIComponent(c.query)]_vars
  /\ [](\A i \in 1..Dispatched :
          LET mine == RequestsBy(i)
          IN /\ mine[1].url.path = CascadingPath
             /\ Len(mine) <= 2
             /\ Len(mine) = 2 => mine[2].url.path = SemanticPath
             /\ \A c \in calls :
                  c.id = i => (Len(mine) = 2 <=> c.pc \in {"awaitFallback", "awaitFallbackJson"}))

C4_Witness ==
  \E c \in calls :
    /\ c.pc = "awaitFallback"
    /\ c.query = <<" ", "a", "&">>
    /\ inputValue = <<" ", "\t">>
    /\ Len(RequestsBy(c.id)) = 2
    /\ RequestsBy(c.id)[2].url.search = RequestsBy(c.id)[1].url.search
    /\ Contains(RequestsBy(c.id)[2].url.search, <<"%", "2", "6">>)

\* C5: when the fallback response too parses with results empty or
\* missing, the search ends showing 'No memories found for your search'
\* having issued exactly two requests, and no search ever issues a third.
C5_BothEmpty ==
  /\ [][\A c \in calls :
          Resumes(c) /\ Fulfilled(c, "awaitFallbackJson") /\ ~c.promise.data.isNull
                     /\ (~c.promise.data.hasResults \/ c.promise.data.results = <<>>) =>
            /\ innerHTML' = EmptyStateHtml(NoMemoriesFound)
            /\ requests' = requests
            /\ Len(RequestsBy(c.id)) = 2
            /\ \A d \in calls' : d.id # c.id]_vars
  /\ [](\A i \in 1..Dispatched : Len(RequestsBy(i)) <= 2)
  /\ [][\A i \in 1..Dispatched :
          (\A c \in calls : c.id # i) => RequestsBy(i)' = RequestsBy(i)]_vars

C5_Witness ==
  /\ event = "none"
  /\ innerHTML = EmptyStateHtml(NoMemoriesFound)
  /\ Len(RequestsBy(Dispatched)) = 2
  /\ calls = {}
  /\ Idle

\* C6: when the primary or the fallback endpoint answers with a non-2xx
\* status, the search ends with an error message whose text holds
\* 'HTTP error! status: <status>', with isSearching false and the loading
\* placeholder gone.
C6_Non2xxShowsError ==
  [][\A c \in calls :
       Resumes(c) /\ c.pc \in {"awaitPrimary", "awaitFallback"}
                  /\ c.promise.state = "fulfilled" /\ c.promise.status \notin 200..299 =>
         /\ IsErrorHtml(innerHTML')
         /\ Contains(HtmlDecode(Body(innerHTML')),
                     <<"HTTP error! status: ", ToString(c.promise.status)>>)
         /\ ~isSearching'
         /\ ~Contains(innerHTML', <<"<div class=\"loading\">">>)
         /\ \A d \in calls' : d.id # c.id]_vars

C6_Witness ==
  /\ event = "none"
  /\ Len(RequestsBy(Dispatched)) = 2
  /\ innerHTML = <<"<div class=\"error\">", "Failed to search memories: ",
                   "HTTP error! status: ", "500", "</div>">>
  /\ ~isSearching
  /\ calls = {}

\* Some request of a search has not been answered.
Hung == \E c \in calls : c.promise.state = "pending"

\* C7: unless a request of the search is never answered, every search
\* that set isSearching ends with isSearching false, the button enabled
\* and its label back to 'Search Memories'.
C7_SearchingLeadsToIdle == (isSearching ~> Idle) \/ <>[]Hung

C7_Witness ==
  /\ Idle
  /\ event = "none"
  /\ IsErrorHtml(innerHTML)
  /\ Contains(innerHTML, <<"Failed to fetch">>)
  /\ Dispatched = 1

C9_ConfiguredBase ==
  \A k \in DOMAIN requests : requests[k].url.base = SERVICE_BASE_URL

\* Character data holds no markup: no bare '<' or '>', and every '&'
\* starts one of the entities the serializer writes.
NoRawMarkup(html) ==
  \A k \in DOMAIN html :
    /\ html[k] \notin {"<", ">"}
    /\ html[k] = "&" => EntityAt(html, k).len > 0

\* C10: the container never holds service or error text as markup: its
\* character data has every '<', '>' and '&' escaped, and what it shows
\* reads back as the literal text of the error or of each memory.
C10_Escaped ==
  /\ [](NoRawMarkup(innerHTML))
  /\ [][\A c \in calls :
          Resumes(c) /\ c.promise.state = "rejected" =>
            /\ IsErrorHtml(innerHTML')
            /\ HtmlDecode(Body(innerHTML')) =
                 <<"Failed to search memories: ">> \o c.promise.message]_vars
  /\ [][\A c \in calls :
          Resumes(c) /\ c.pc \in {"awaitPrimaryJson", "awaitFallbackJson"}
                     /\ c.promise.state = "fulfilled"
                     /\ c.promise.data.hasResults /\ c.promise.data.results # <<>> =>
            HtmlDecode(innerHTML') =
              FlatMap(LAMBDA m, i : CardTemplate(CardText(m), ScoreText(m.score), i),
                      c.promise.data.results)]_vars

C10_Witness ==
  /\ IsErrorHtml(innerHTML)
  /\ Contains(innerHTML, <<"&", "l", "t", ";", "html", "&", "g", "t", ";">>)
  /\ event = "none"

\* C11: the tabs the service worker has opened are, in order, one per
\* delivered message whose action is 'openDashboard', each at that
\* message's url as it came (a javascript: URL, the empty string or no url
\* at all included); no other message and no other listener opens a tab.
C11_OneTabPerOpenDashboard ==
  tabs = FlatMap(LAMBDA request, i :
                   IF request.action = Str(<<"openDashboard">>)
                   THEN <<[url |-> request.url]>> ELSE <<>>,
                 delivered)

C11_Witness ==
  /\ Len(delivered) = 2
  /\ delivered[1] = [action |-> Str(<<"opendashboard">>),
                     url |-> Str(<<"https://app.mem0.ai/dashboard">>)]
  /\ delivered[2] = [action |-> Str(<<"openDashboard">>),
                     url |-> Str(<<"javascript:alert(1)">>)]
  /\ tabs = <<[url |-> Str(<<"javascript:alert(1)">>)]>>

\* The primary request of the activation c has failed: the fetch was
\* rejected, the status is not 2xx, or the body did not parse.
PrimaryFailed(c) ==
  \/ c.pc = "awaitPrimary" /\ c.promise.state = "rejected"
  \/ c.pc = "awaitPrimary" /\ c.promise.state = "fulfilled"
                           /\ c.promise.status \notin 200..299
  \/ c.pc = "awaitPrimaryJson" /\ c.promise.state = "rejected"

\* C12: a search whose primary request failed ends there, with an error
\* shown and no request issued; a search only ever issues a further
\* request from a primary body that parsed with results absent or empty,
\* so a search that has ended never issues one.
C12_NoFallbackAfterFailure ==
  /\ [][\A c \in calls :
          Resumes(c) /\ PrimaryFailed(c) =>
            /\ requests' = requests
            /\ IsErrorHtml(innerHTML')
            /\ \A d \in calls' : d.id # c.id]_vars
  /\ [][\A i \in 1..Dispatched :
          Len(RequestsBy(i)') > Len(RequestsBy(i)) =>
            \E c \in calls :
              /\ c.id = i
              /\ Fulfilled(c, "awaitPrimaryJson")
              /\ ~c.promise.data.isNull
              /\ ~c.promise.data.hasResults \/ c.promise.data.results = <<>>]_vars

C12_Witness ==
  /\ Dispatched = 1
  /\ RequestsTo(SemanticPath) = <<>>
  /\ calls = {}
  /\ innerHTML = ErrorHtml(escapeHtml(FailedToSearch(SyntaxError)))
  /\ ~isSearching

\* The tags the popup's templates write.
Tags ==
  {"<div class=\"loading\">", "<div class=\"error\">", "<div class=\"empty-state\">",
   "<div class=\"memory-item\">", "<div class=\"memory-text\">",
   "<div class=\"memory-meta\">", "<span>", "</span>", "</div>"}

\* One element of the given opening tag holding text only.
IsMessageHtml(html, open) ==
  /\ Len(html) >= 3
  /\ Head(html) = open
  /\ html[Len(html)] = "</div>"
  /\ \A k \in 2..(Len(html) - 1) : html[k] \notin Tags

\* The children of the container, in order.
Children == {e \in cards : e.attached}
Child(i) == CHOOSE e \in Children : e.index = i

\* The container holds the cards of its children, one each and in order,
\* and nothing else.
ShowsCards ==
  /\ Children # {}
  /\ {e.index : e \in Children} = 1..Cardinality(Children)
  /\ innerHTML = FlatMap(LAMBDA j, i : CardHtml(Child(i).memory, i),
                         [i \in 1..Cardinality(Children) |-> i])

\* The container shows exactly one terminal display, result cards, an
\* empty-state message or an error message, and no loading placeholder.
OneTerminalDisplay ==
  /\ Cardinality({kind \in {"cards", "empty-state", "error"} :
                    \/ kind = "cards" /\ ShowsCards
                    \/ kind = "empty-state"
                         /\ IsMessageHtml(innerHTML, "<div class=\"empty-state\">")
                    \/ kind = "error" /\ IsMessageHtml(innerHTML, "<div class=\"error\">")})
       = 1
  /\ ~Contains(innerHTML, <<"<div class=\"loading\">">>)

\* A request of the activation c has failed.
RequestFailed(c) ==
  \/ c.promise.state = "rejected"
  \/ c.pc \in {"awaitPrimary", "awaitFallback"} /\ c.promise.status \notin 200..299
  \/ c.pc \in {"awaitPrimaryJson", "awaitFallbackJson"} /\ c.promise.data.isNull

\* Whenever no search is running after one was dispatched the container
\* shows one terminal display, and a search resumed from a failed request
\* ends with an error message.
SearchFailuresRendered ==
  /\ [](~isSearching /\ Dispatched >= 1 => OneTerminalDisplay)
  /\ [][\A c \in calls :
          Resumes(c) /\ RequestFailed(c) =>
            /\ IsMessageHtml(innerHTML', "<div class=\"error\">")
            /\ ~isSearching']_vars

HealthStep == health' # health

\* A click that dispatches a search.
Dispatch == Click /\ Len(requests') = Len(requests) + 1

\* C14: no step of the health check changes isSearching, the button or
\* the searches; a click or Enter on a non-blank query while no search is
\* running dispatches the search whatever the health check has come to,
\* and such a click is possible in every state with no search running,
\* the health check pending, failed or succeeded.
C14_HealthAdvisory ==
  /\ [][HealthStep => UNCHANGED <<isSearching, disabled, label, calls, requests>>]_vars
  /\ [][SearchEvent /\ ~isSearching /\ Trim(inputValue) # <<>> =>
          /\ Issues(Request(Dispatched + 1, CascadingPath,
                            <<"?text_query=">> \o encodeURIComponent(inputValue)))
          /\ isSearching']_vars
  /\ [](~isSearching /\ Trim(inputValue) # <<>> /\ Dispatched < MaxSearches =>
          ENABLED Dispatch)

C14_Witness ==
  /\ event = "search"
  /\ Dispatched = 1
  /\ \E c \in calls : c.pc = "awaitPrimary" /\ c.promise.state = "pending"
  /\ health.pc = "done"
  /\ health.promise.state = "rejected"
  /\ health.returned = "false"
  /\ innerHTML = LoadingHtml

\* C15: no step of the health check changes the container while it shows
\* the result cards or the loading placeholder of a search.
C15_DisplayKeptFromHealthCheck ==
  [][HealthStep /\ Dispatched >= 1 /\ (ShowsCards \/ innerHTML = LoadingHtml) =>
       innerHTML' = innerHTML /\ cards' = cards]_vars

\* C16: the button is disabled exactly while isSearching is true and
\* labelled 'Searching...' exactly then, and 'Search Memories' when no
\* search is running after one was dispatched; a step that changes
\* isSearching, the disabled flag or the label sets all three as
\* setLoading does, to true when a click or Enter starts the search and to
\* false when the search ends.
C16_ControlFollowsFlag ==
  /\ [](disabled <=> isSearching)
  /\ [](label = "Searching..." <=> isSearching)
  /\ [](~isSearching /\ Dispatched >= 1 => label = "Search Memories")
  /\ [][<<isSearching, disabled, label>>' # <<isSearching, disabled, label>> =>
          \E loading \in BOOLEAN :
            /\ isSearching' = loading
            /\ disabled' = loading
            /\ label' = IF loading THEN "Searching..." ELSE "Search Memories"
            /\ IF loading THEN SearchEvent /\ innerHTML' = LoadingHtml
               ELSE \E c \in calls : Resumes(c)]_vars

C16_Witness ==
  /\ isSearching
  /\ disabled
  /\ label = "Searching..."
  /\ Dispatched = 2
  /\ event = "search"
  /\ \E c \in calls : c.pc = "awaitPrimary" /\ c.promise.state = "pending"

\* html cut at every memory-item tag: the cards it holds, in order, when
\* it begins with one.
CardsOf(html) ==
  LET IsStart(k) == k = Len(html) + 1 \/ html[k] = "<div class=\"memory-item\">"
      End(k) == CHOOSE j \in (k + 1)..(Len(html) + 1) :
                  IsStart(j) /\ \A m \in (k + 1)..(j - 1) : ~IsStart(m)
      from[k \in 1..(Len(html) + 1)] ==
        IF k = Len(html) + 1 THEN <<>>
        ELSE <<SubSeq(html, k, End(k) - 1)>> \o from[End(k)]
  IN from[1]

\* The text a card shows: what its memory-text element reads as.
ShownText(card) ==
  LET close == CHOOSE k \in 3..Len(card) :
                 card[k] = "</div>" /\ \A j \in 3..(k - 1) : card[j] # "</div>"
  IN HtmlDecode(SubSeq(card, 3, close - 1))

\* chunk_text when it is non-empty, else text when it is non-empty, else
\* the placeholder.
PreferredText(memory) ==
  IF memory.chunk_text.defined /\ memory.chunk_text.str # <<>> THEN memory.chunk_text.str
  ELSE IF memory.text.defined /\ memory.text.str # <<>> THEN memory.text.str
  ELSE <<"No text available">>

\* C17: a search that ends with results leaves in the container one card
\* per result and nothing else, in the order of the response; the i-th
\* card is labelled 'Memory #i' and shows the i-th result's chunk_text,
\* else its text, else 'No text available', and the container's children
\* are the elements of these results alone.
C17_OneCardPerResult ==
  [][\A c \in calls :
       Resumes(c) /\ c.pc \in {"awaitPrimaryJson", "awaitFallbackJson"}
                  /\ c.promise.state = "fulfilled"
                  /\ c.promise.data.hasResults /\ c.promise.data.results # <<>> =>
         \E results \in {c.promise.data.results}, card \in {CardsOf(innerHTML')} :
            /\ Len(card) = Len(results)
            /\ \A i \in DOMAIN results :
                 /\ card[i][1] = "<div class=\"memory-item\">"
                 /\ card[i][2] = "<div class=\"memory-text\">"
                 /\ ShownText(card[i]) = PreferredText(results[i])
                 /\ Contains(card[i], <<"<span>", "Memory #", ToString(i), "</span>">>)
                 /\ Cardinality({k \in DOMAIN card[i] : card[i][k] = "Memory #"}) = 1
            /\ {[index |-> e.index, memory |-> e.memory] : e \in Children'}
                 = {[index |-> i, memory |-> results[i]] : i \in DOMAIN results}
            /\ Cardinality(Children') = Len(results)]_vars

C17_Witness ==
  /\ ~isSearching
  /\ Cardinality(Children) = 2
  /\ Child(1).memory.chunk_text = Undefined
  /\ Child(2).memory.chunk_text = Str(<<"<", "b", ">">>)
  /\ Child(2).memory.text = Str(<<"t">>)
  /\ ShownText(CardsOf(innerHTML)[1]) = <<"No text available">>
  /\ ShownText(CardsOf(innerHTML)[2]) = <<"<", "b", ">">>
  /\ Contains(CardsOf(innerHTML)[2], <<"Memory #", "2">>)

\* chunk_text when it is non-empty, else text when it is non-empty, else
\* the empty string.
RawText(memory) ==
  IF memory.chunk_text.defined /\ memory.chunk_text.str # <<>> THEN memory.chunk_text.str
  ELSE IF memory.text.defined /\ memory.text.str # <<>> THEN memory.text.str
  ELSE <<>>

\* The element the copy k holds.
ElementOf(k, es) == CHOOSE e \in es : e.by = k.by /\ e.index = k.index

\* What the user sees of the popup: the container with its children and
\* their colours, the button and isSearching.
Seen == <<innerHTML, Children, isSearching, disabled, label>>

\* C18: a click on a card asks the clipboard to take the raw text of that
\* card's memory (never the placeholder) and changes nothing yet; when
\* the write succeeds the clipboard holds that text and the card has the
\* confirmation colour, which the timer takes away again, so that no card
\* stays coloured; when the write fails the clipboard and everything the
\* user sees stay as they were.
C18_CopyOnClick ==
  /\ [][writes' # writes =>
          \E e \in Children :
            /\ writes' = Append(writes, RawText(e.memory))
            /\ \E k \in copies' \ copies :
                 k.text = RawText(e.memory) /\ k.by = e.by /\ k.index = e.index
            /\ UNCHANGED <<Seen, clipboard>>]_vars
  /\ [][\A k \in copies \ copies' :
          k.pc = "awaitWrite" =>
            IF \E t \in copies' : t.n = k.n
            THEN /\ clipboard' = k.text
                 /\ ElementOf(k, cards').backgroundColor = "#34a853"
                 /\ ElementOf(k, cards').memory = ElementOf(k, cards).memory
                 /\ UNCHANGED <<innerHTML, isSearching, disabled, label>>
            ELSE UNCHANGED <<Seen, clipboard>>]_vars
  /\ [][\A k \in copies \ copies' :
          k.pc = "timer" =>
            /\ \A e \in cards' : e.by = k.by /\ e.index = k.index => e.backgroundColor = ""
            /\ UNCHANGED <<innerHTML, isSearching, disabled, label, clipboard>>]_vars
  /\ (\E e \in cards : e.backgroundColor # "") ~> (\A e \in cards : e.backgroundColor = "")

C18_Witness ==
  /\ clipboard = <<>>
  /\ \E e \in Children :
       /\ e.backgroundColor = "#34a853"
       /\ e.memory.chunk_text = Undefined
       /\ e.index = 2
  /\ Contains(innerHTML, <<"No text available">>)
  /\ \E k \in copies : k.pc = "timer"

\* A fetch of a search is unanswered.
FetchPending ==
  \E c \in calls : c.pc \in {"awaitPrimary", "awaitFallback"} /\ c.promise.state = "pending"

\* C19: while the primary or the fallback request of a search is
\* unanswered isSearching is true and the button is disabled and labelled
\* 'Searching...'; no step changes that or the search but the network
\* answering the request, so a click, an Enter, an edit of the field or the
\* health check completing leave the search waiting and issue no request;
\* if the request is never answered, isSearching is true for good.
C19_HungRequestBlocks ==
  /\ [](FetchPending => isSearching /\ disabled /\ label = "Searching...")
  /\ [][FetchPending /\ calls' = calls =>
          /\ requests' = requests
          /\ UNCHANGED <<isSearching, disabled, label>>]_vars
  /\ [][FetchPending /\ calls' # calls =>
          \E c \in calls, d \in calls' :
            /\ c.promise.state = "pending"
            /\ d.promise.state # "pending"
            /\ calls' = (calls \ {c}) \cup {[c EXCEPT !.promise = d.promise]}
            /\ requests' = requests
            /\ UNCHANGED <<isSearching, disabled, label>>]_vars
  /\ <>[]FetchPending => <>[]isSearching

C19_Witness ==
  /\ event = "search"
  /\ \E c \in calls : c.pc = "awaitFallback" /\ c.promise.state = "pending"
  /\ Len(requests) = 3
  /\ Trim(inputValue) # <<>>
  /\ health.pc = "done"
  /\ innerHTML = ErrorHtml(ServiceUnavailable)
  /\ isSearching
  /\ label = "Searching..."

====
